---------------------------- MODULE Spec2Model ----------------------------
(***************************************************************************)
(* State-machine model of the influencer catalog scripts:                  *)
(*   scripts/fetch_instagram.py, scripts/fetch_tiktok.py,                  *)
(*   scripts/fetch_youtube.py, scripts/merge.py.                           *)
(* Each script is a sequential program; a behaviour follows the successive *)
(* runs of one scheduled script.  Every remote call is one step, and its   *)
(* answer (or its failure) is chosen by the environment.                   *)
(***************************************************************************)
EXTENDS Integers, Sequences, FiniteSets, TLC

\* ------------------------------------------------------------------ bounds
MaxRuns == 2        \* script runs in one behaviour
MaxItems == 2       \* records in one provider answer / one source file
MaxTags == 2        \* discovery units (hashtags, keywords) in config.json

\* --------------------------------------------------------- input domains
Handles == {"a", "b"}
NoHandle == ""
FollowerValues == {9999, 10000, 1000000, 1000001}
VideoCounts == {9, 10}
MinFollowersChoices == {1000, 10000}
MaxFollowersChoices == {1000000}
MinVideosChoices == {10}
Configs == [min_followers : MinFollowersChoices,
            max_followers : MaxFollowersChoices,
            min_videos : MinVideosChoices]

NoFile == [missing |-> TRUE]               \* path.exists() is false
Truncated == [truncated |-> TRUE]          \* opened for writing, json.dump not run yet
NoConfig == [unset |-> TRUE]

IG_FILE == "instagram.json"
TT_FILE == "tiktok.json"
YT_FILE == "youtube.json"
OUT_FILE == "influencers.json"
FileNames == {YT_FILE, IG_FILE, TT_FILE, OUT_FILE}

HASHTAG_ACTOR == "hashtag-scraper"
PROFILE_ACTOR == "profile-scraper"

Terminal == {"SUCCEEDED", "FAILED", "ABORTED", "TIMED-OUT"}
FailedStatuses == {"FAILED", "ABORTED", "TIMED-OUT"}
Statuses == {"RUNNING"} \cup Terminal

\* -------------------------------------------------------- program constants
timeout_sec == 300
chunk_size == 50

\* range(timeout_sec // 5), fetch_instagram.py line 78
ig_poll_attempts_OneMore == timeout_sec \div 5 + 1

ig_poll_attempts == timeout_sec \div 5

\* range(60), fetch_tiktok.py line 83
tt_poll_attempts == 60

\* ----------------------------------------------------------------- helpers
SeqsUpTo(S, n) == UNION {[1..k -> S] : k \in 0..n}

Perms(S) == {s \in [1..Cardinality(S) -> S] : \A x \in S : \E k \in DOMAIN s : s[k] = x}

Range(s) == {s[k] : k \in DOMAIN s}

Min(a, b) == IF a < b THEN a ELSE b

\* Python's s[from:to]
Slice_Overlap(s, from, to) == SubSeq(s, from + 1, Min(to + 1, Len(s)))

Slice(s, from, to) == SubSeq(s, from + 1, Min(to, Len(s)))

\* number of chunks range(0, n, chunk_size) visits
Chunks(n) == (n + chunk_size - 1) \div chunk_size

\* fetch_instagram.py, get_tier
get_tier_Exclusive(followers) ==
    IF followers > 1000000 THEN "mega"
    ELSE IF followers > 100000 THEN "macro"
    ELSE IF followers > 50000 THEN "mid"
    ELSE IF followers > 10000 THEN "micro"
    ELSE "nano"

get_tier(followers) ==
    IF followers >= 1000000 THEN "mega"
    ELSE IF followers >= 100000 THEN "macro"
    ELSE IF followers >= 50000 THEN "mid"
    ELSE IF followers >= 10000 THEN "micro"
    ELSE "nano"

\* fetch_tiktok.py, get_tier
tt_get_tier(followers) ==
    IF followers >= 1000000 THEN "mega"
    ELSE IF followers >= 100000 THEN "macro"
    ELSE IF followers >= 50000 THEN "mid"
    ELSE IF followers >= 10000 THEN "micro"
    ELSE "nano"

\* fetch_youtube.py, get_tier
yt_get_tier(subscribers) ==
    IF subscribers >= 1000000 THEN "mega"
    ELSE IF subscribers >= 100000 THEN "macro"
    ELSE IF subscribers >= 50000 THEN "mid"
    ELSE IF subscribers >= 10000 THEN "micro"
    ELSE "nano"

\* A dict[str, dict] keyed by handle is a sequence of records with pairwise
\* distinct handles, in insertion order.
Keys(d) == {d[k].handle : k \in DOMAIN d}

\* d[acc["handle"]] = acc
DictSet(d, acc) ==
    IF acc.handle \in Keys(d)
    THEN [k \in DOMAIN d |-> IF d[k].handle = acc.handle THEN acc ELSE d[k]]
    ELSE Append(d, acc)

\* {**d, **{acc["handle"]: acc for acc in accs}}
RECURSIVE DictUpdate(_, _)
DictUpdate(d, accs) ==
    IF accs = <<>> THEN d
    ELSE DictUpdate(DictSet(d, Head(accs)), Tail(accs))

load_existing(file) ==
    IF file = NoFile THEN <<>> ELSE DictUpdate(<<>>, file.influencers)

\* list.sort(key=lambda x: x["followers"], reverse=True): stable, descending
InsertDesc_TiesFirst(sorted, x) ==
    LET n == Cardinality({k \in DOMAIN sorted : sorted[k].followers > x.followers})
    IN SubSeq(sorted, 1, n) \o <<x>> \o SubSeq(sorted, n + 1, Len(sorted))

InsertDesc(sorted, x) ==
    LET n == Cardinality({k \in DOMAIN sorted : sorted[k].followers >= x.followers})
    IN SubSeq(sorted, 1, n) \o <<x>> \o SubSeq(sorted, n + 1, Len(sorted))

RECURSIVE SortDesc(_)
SortDesc(s) ==
    IF s = <<>> THEN <<>>
    ELSE InsertDesc(SortDesc(SubSeq(s, 1, Len(s) - 1)), s[Len(s)])

\* min_f <= acc["followers"] <= max_f
in_range_Exclusive(acc, lo, hi) == lo < acc.followers /\ acc.followers < hi

in_range(acc, lo, hi) == lo <= acc.followers /\ acc.followers <= hi

\* the object json.dump writes
Catalog(t, accs) == [generated_at |-> t, count |-> Len(accs), influencers |-> accs]

\* ------------------------------------------------------------------- state
VARIABLES
    store,              \* data/*.json: file name -> catalog, NoFile or Truncated
    now,                \* the clock: number of script runs started so far
    workflow,           \* the script whose runs this behaviour follows
    script,             \* the running script, or "none"
    pc,                 \* its position; "done" / "aborted" / "exited" after it
    min_f, max_f,       \* config.json: filters.min_followers, .max_followers
    min_videos,         \* config.json: filters.min_videos
    hashtags,           \* config.json: number of hashtags / keywords
    tag,                \* index of the hashtag / keyword being processed
    existing,           \* load_existing(OUTPUT_PATH)
    all_usernames,      \* fetch_instagram.main: set of new usernames
    usernames_list,     \* fetch_profiles: list(all_usernames)
    i,                  \* fetch_profiles / fetch_channel_details: chunk offset
    results,            \* fetch_profiles / fetch_channel_details: records so far
    newly_found,        \* fetch_tiktok.main: dict of new accounts
    merged,             \* main: merged mapping
    filtered,           \* main: filtered and sorted list
    actor,              \* run_actor: actor_id
    attempts,           \* run_actor: iterations of the polling loop so far
                        \* (0 outside the loop)
    all_channel_ids,    \* fetch_youtube.main: set of channel ids
    channel_list,       \* fetch_channel_details: list(all_channel_ids)
    all_influencers,    \* merge.main: the unified list
    seen_ids,           \* merge.main: ids already appended
    path,               \* merge.main: index in SOURCES of the file being read
    \* history variables
    status,             \* the last job status read in this run
    fetches,            \* dataset fetches made for the last submitted job
    skipped,            \* the dataset fetched for it held an item without a
                        \* resolvable handle
    jobs,               \* jobs submitted in this run
    input,              \* the script's catalog file as it was when the run began
    discovered,         \* usernames returned by this run's hashtag jobs
    submitted,          \* keys sent to the enrichment call in this run
    persisted_filters,  \* file name -> the filters it was last written with
    enriched            \* usernames whose profile the profile actor has
                        \* returned, in this run or an earlier one

cfg_vars == <<min_f, max_f, min_videos, hashtags>>

main_vars == <<tag, all_usernames, usernames_list, i, results, newly_found,
               merged, filtered, discovered>>

job_vars == <<actor, attempts, status, fetches, skipped, jobs, submitted>>

yt_vars == <<all_channel_ids, channel_list>>

merge_vars == <<all_influencers, seen_ids, path>>

locals == <<cfg_vars, existing, input, main_vars, job_vars, yt_vars, merge_vars>>

vars == <<store, now, workflow, script, pc, persisted_filters, enriched,
          locals>>

InitLocals ==
    /\ min_f = 0 /\ max_f = 0 /\ min_videos = 0 /\ hashtags = 0 /\ tag = 0
    /\ existing = <<>> /\ all_usernames = {} /\ usernames_list = <<>>
    /\ i = 0 /\ results = <<>> /\ newly_found = <<>>
    /\ merged = <<>> /\ filtered = <<>>
    /\ actor = "none" /\ attempts = 0 /\ status = "none"
    /\ all_channel_ids = {} /\ channel_list = <<>>
    /\ all_influencers = <<>> /\ seen_ids = {} /\ path = 0
    /\ input = NoFile /\ discovered = {} /\ submitted = <<>>
    /\ fetches = 0 /\ skipped = FALSE /\ jobs = 0

\* the process ended: its variables are gone
ResetLocals ==
    /\ min_f' = 0 /\ max_f' = 0 /\ min_videos' = 0 /\ hashtags' = 0 /\ tag' = 0
    /\ existing' = <<>> /\ all_usernames' = {} /\ usernames_list' = <<>>
    /\ i' = 0 /\ results' = <<>> /\ newly_found' = <<>>
    /\ merged' = <<>> /\ filtered' = <<>>
    /\ actor' = "none" /\ attempts' = 0 /\ status' = "none"
    /\ all_channel_ids' = {} /\ channel_list' = <<>>
    /\ all_influencers' = <<>> /\ seen_ids' = {} /\ path' = 0
    /\ input' = NoFile /\ discovered' = {} /\ submitted' = <<>>
    /\ fetches' = 0 /\ skipped' = FALSE /\ jobs' = 0

InitFor(workflows) ==
    /\ store = [f \in FileNames |-> NoFile]     \* a fresh checkout: no data files
    /\ persisted_filters = [f \in FileNames |-> NoConfig]
    /\ enriched = {}
    /\ now = 0
    /\ workflow \in workflows
    /\ script = "none"
    /\ pc = "done"
    /\ InitLocals

\* An uncaught exception (raise_for_status, a connection error, a KeyError on
\* the answer): the script ends before its persist step.
Abort_EmptiesCatalog ==
    /\ script' = "none"
    /\ pc' = "aborted"
    /\ ResetLocals
    /\ store' = [f \in FileNames |->
                   IF \/ script = "instagram" /\ f = IG_FILE
                      \/ script = "tiktok" /\ f = TT_FILE
                      \/ script = "youtube" /\ f = YT_FILE
                   THEN Catalog(now, <<>>)
                   ELSE store[f]]
    /\ UNCHANGED <<now, workflow, persisted_filters, enriched>>

Abort ==
    /\ script' = "none"
    /\ pc' = "aborted"
    /\ ResetLocals
    /\ UNCHANGED <<store, now, workflow, persisted_filters, enriched>>

\* The variables of main that change when a remote call returns.
Frame ==
    [pc |-> pc, actor |-> actor, tag |-> tag, all_usernames |-> all_usernames,
     usernames_list |-> usernames_list, i |-> i, results |-> results,
     newly_found |-> newly_found, merged |-> merged, filtered |-> filtered,
     discovered |-> discovered]

SetFrame(L) ==
    /\ pc' = L.pc /\ actor' = L.actor /\ tag' = L.tag
    /\ all_usernames' = L.all_usernames /\ usernames_list' = L.usernames_list
    /\ i' = L.i /\ results' = L.results /\ newly_found' = L.newly_found
    /\ merged' = L.merged /\ filtered' = L.filtered
    /\ discovered' = L.discovered

\* ============================================================ Instagram
RawPosts == [ownerUsername : Handles \cup {NoHandle}]
\* A field that is absent, None or "" is falsy to Python's `or`; NoHandle
\* stands for all three.
RawProfiles ==
    [username : Handles \cup {NoHandle}, handle : Handles \cup {NoHandle},
     followersCount : FollowerValues]

\* the profiles whose handle, if any, is in the field `username`
UsernameProfiles == {p \in RawProfiles : p.handle = NoHandle}

\* fetch_profiles, line 136: p.get("username") or p.get("handle", "")
ig_handle(p) == IF p.username # NoHandle THEN p.username ELSE p.handle

\* fetch_profiles, lines 140-159
ig_record_TikTokPrefix(p, today) ==
    [id |-> "tt_" \o ig_handle(p), platform |-> "instagram",
     handle |-> ig_handle(p), followers |-> p.followersCount,
     tier |-> get_tier(p.followersCount), last_updated |-> today]

ig_record(p, today) ==
    [id |-> "ig_" \o ig_handle(p), platform |-> "instagram",
     handle |-> ig_handle(p), followers |-> p.followersCount,
     tier |-> get_tier(p.followersCount), last_updated |-> today]

\* fetch_profiles, lines 135-160: one batch's profiles to canonical records
ig_canonicalize_KeepAll(profiles, today) ==
    [k \in DOMAIN profiles |-> ig_record(profiles[k], today)]

RECURSIVE ig_canonicalize(_, _)
ig_canonicalize(profiles, today) ==
    IF profiles = <<>> THEN <<>>
    ELSE IF ig_handle(Head(profiles)) = NoHandle
         THEN ig_canonicalize(Tail(profiles), today)
         ELSE <<ig_record(Head(profiles), today)>>
              \o ig_canonicalize(Tail(profiles), today)

\* collect_usernames, line 115
collect_usernames(posts) ==
    {posts[k].ownerUsername : k \in DOMAIN posts} \ {NoHandle}

\* main, line 190
ig_new_in_tag_KeepKnown(usernames, exist, found) == usernames \ found

ig_new_in_tag(usernames, exist, found) == (usernames \ Keys(exist)) \ found

\* main, line 206
ig_merge_Concat(exist, new_accounts) == exist \o new_accounts

ig_merge_OnlyNew(exist, new_accounts) == DictUpdate(<<>>, new_accounts)

ig_merge_OldWins(exist, new_accounts) ==
    DictUpdate(exist, SelectSeq(DictUpdate(<<>>, new_accounts),
                                LAMBDA acc : acc.handle \notin Keys(exist)))

ig_merge(exist, new_accounts) ==
    DictUpdate(exist, DictUpdate(<<>>, new_accounts))

\* main, lines 207-208
ig_filter_sort_Unstable(m, lo, hi) ==
    LET f == SortDesc(SelectSeq(m, LAMBDA acc : in_range(acc, lo, hi)))
    IN IF Len(f) >= 2 /\ f[1].followers = f[2].followers
       THEN <<f[2], f[1]>> \o SubSeq(f, 3, Len(f))
       ELSE f

ig_filter_sort(m, lo, hi) ==
    SortDesc(SelectSeq(m, LAMBDA acc : in_range(acc, lo, hi)))

\* main, lines 205-208
ig_finish(L, new_accounts) ==
    LET m == ig_merge(existing, new_accounts)
    IN [L EXCEPT !.pc = "persist", !.results = new_accounts,
                 !.merged = m, !.filtered = ig_filter_sort(m, min_f, max_f)]

\* main, lines 198-203: fetch_profiles(token, list(all_usernames)); the order
\* of list(set) is not fixed
ig_profiles_phase(L) ==
    IF L.all_usernames # {}
    THEN {[L EXCEPT !.pc = "submit", !.actor = PROFILE_ACTOR,
                    !.usernames_list = order, !.i = 0, !.results = <<>>]
            : order \in Perms(L.all_usernames)}
    ELSE {ig_finish(L, <<>>)}

\* run_actor returned to its caller, which made `items` of the answer (the
\* usernames of collect_usernames, the records of fetch_profiles): the frames
\* main may continue in
ig_returned(items) ==
    IF actor = HASHTAG_ACTOR
    THEN LET L == [Frame EXCEPT
                     !.all_usernames = all_usernames
                         \cup ig_new_in_tag(items, existing, all_usernames),
                     !.discovered = discovered \cup items]
         IN IF tag < hashtags
            THEN {[L EXCEPT !.tag = tag + 1, !.pc = "submit"]}
            ELSE ig_profiles_phase(L)
    ELSE LET res == results \o items
         IN IF i + chunk_size < Len(usernames_list)
            THEN {[Frame EXCEPT !.i = i + chunk_size, !.results = res,
                                !.pc = "submit"]}
            ELSE {ig_finish(Frame, res)}

\* the datasets run_actor can return: posts from the hashtag actor, profiles
\* from the profile actor (a profile that carries its handle in the field
\* `handle` gives the record of the one that carries it in `username`)
ig_datasets ==
    IF actor = HASHTAG_ACTOR THEN SeqsUpTo(RawPosts, MaxItems)
    ELSE SeqsUpTo(UsernameProfiles, MaxItems)

\* what the caller of run_actor makes of a fetched dataset
ig_made_of(dataset) ==
    IF actor = HASHTAG_ACTOR THEN collect_usernames(dataset)
    ELSE ig_canonicalize(dataset, now)

\* the dataset holds an item without a resolvable handle
ig_unresolved(dataset) ==
    IF actor = HASHTAG_ACTOR
    THEN \E k \in DOMAIN dataset : dataset[k].ownerUsername = NoHandle
    ELSE \E k \in DOMAIN dataset : ig_handle(dataset[k]) = NoHandle

\* what the caller can make of the fetched dataset, and whether it skipped
\* an item of it
ig_answers ==
    {[items |-> ig_made_of(dataset), skipped |-> ig_unresolved(dataset)] :
        dataset \in ig_datasets}

\* what the caller makes of run_actor returning [] (lines 90, 93)
ig_nothing == IF actor = HASHTAG_ACTOR THEN collect_usernames(<<>>)
              ELSE ig_canonicalize(<<>>, now)

\* main, lines 165-196, up to the first remote call
ig_main ==
    /\ workflow = "instagram" /\ script = "none" /\ now < MaxRuns
    /\ now' = now + 1
    /\ \E c \in Configs, n \in 0..MaxTags :
          IF store[IG_FILE] = Truncated
          THEN /\ script' = "none"          \* json.load raises, line 56
               /\ pc' = "aborted"
               /\ UNCHANGED <<cfg_vars, existing, input, main_vars, actor>>
          ELSE /\ script' = "instagram"
               /\ min_f' = c.min_followers
               /\ max_f' = c.max_followers
               /\ hashtags' = n
               /\ existing' = load_existing(store[IG_FILE])
               /\ input' = store[IG_FILE]
               /\ IF n > 0
                  THEN SetFrame([Frame EXCEPT !.pc = "submit", !.tag = 1,
                                              !.actor = HASHTAG_ACTOR])
                  ELSE LET m == ig_merge(load_existing(store[IG_FILE]), <<>>)
                       IN SetFrame([Frame EXCEPT
                             !.pc = "persist", !.merged = m,
                             !.filtered = ig_filter_sort(m, c.min_followers,
                                                         c.max_followers)])
               /\ UNCHANGED min_videos
    /\ UNCHANGED <<store, workflow, persisted_filters, enriched, attempts,
                   status, fetches, skipped, jobs, submitted, yt_vars, merge_vars>>

\* run_actor, lines 65-75: the POST that starts the job
ig_run_actor_submit ==
    /\ script = "instagram" /\ pc = "submit"
    /\ \/ /\ pc' = "poll"
          /\ attempts' = 0
          /\ fetches' = 0
          /\ skipped' = FALSE
          /\ jobs' = jobs + 1
          /\ submitted' = IF actor = PROFILE_ACTOR
                          THEN submitted \o Slice(usernames_list, i, i + chunk_size)
                          ELSE submitted
          /\ UNCHANGED <<store, now, workflow, script, persisted_filters, enriched,
                         cfg_vars, existing, input, main_vars, actor, status,
                         yt_vars, merge_vars>>
       \/ Abort

\* run_actor, lines 86-93: what the loop does with the status it read;
\* `last` says that this was the last iteration of range(...)
ig_poll_outcome_Underscore(s, last) ==
    IF s = "SUCCEEDED" THEN "break"
    ELSE IF s \in {"FAILED", "ABORTED", "TIMED_OUT"} THEN "return"
    ELSE IF last THEN "return"
    ELSE "continue"

ig_poll_outcome_BreakOnTerminal(s, last) ==
    IF s \in Terminal THEN "break"
    ELSE IF last THEN "return"
    ELSE "continue"

ig_poll_outcome(s, last) ==
    IF s = "SUCCEEDED" THEN "break"
    ELSE IF s \in FailedStatuses THEN "return"
    ELSE IF last THEN "return"
    ELSE "continue"

\* run_actor, lines 78-93: one iteration of the polling loop
ig_run_actor_poll ==
    /\ script = "instagram" /\ pc = "poll" /\ attempts < ig_poll_attempts
    /\ \/ \E s \in Statuses :
            /\ status' = s
            /\ IF ig_poll_outcome(s, attempts + 1 = ig_poll_attempts) = "break"
               THEN /\ pc' = "fetch"
                    /\ attempts' = 0
                    /\ UNCHANGED <<main_vars, actor>>
               ELSE IF ig_poll_outcome(s, attempts + 1 = ig_poll_attempts) = "return"
               THEN /\ attempts' = 0
                    /\ \E L \in ig_returned(ig_nothing) : SetFrame(L)
               ELSE /\ attempts' = attempts + 1
                    /\ UNCHANGED <<pc, main_vars, actor>>
            /\ UNCHANGED <<store, now, workflow, script, persisted_filters, enriched,
                           cfg_vars, existing, input, fetches, skipped, jobs, submitted,
                           yt_vars, merge_vars>>
       \/ Abort

\* run_actor, lines 95-101: the dataset fetch, then the caller's processing
ig_run_actor_fetch ==
    /\ script = "instagram" /\ pc = "fetch"
    /\ \/ /\ fetches' = fetches + 1
          /\ \E a \in ig_answers :
                /\ \E L \in ig_returned(a.items) : SetFrame(L)
                /\ enriched' = IF actor = PROFILE_ACTOR
                               THEN enriched \cup Keys(a.items)
                               ELSE enriched
                /\ skipped' = a.skipped
          /\ UNCHANGED <<store, now, workflow, script, persisted_filters,
                         cfg_vars, existing, input, attempts, status, jobs,
                         submitted, yt_vars, merge_vars>>
       \/ Abort

\* main, line 213: open(OUTPUT_PATH, "w") truncates the file
ig_persist_open ==
    /\ script = "instagram" /\ pc = "persist"
    /\ store' = [store EXCEPT ![IG_FILE] = Truncated]
    /\ pc' = "write"
    /\ UNCHANGED <<now, workflow, script, persisted_filters, enriched, locals>>

\* main, lines 214-224: json.dump, and the script ends
ig_persist_write ==
    /\ script = "instagram" /\ pc = "write"
    /\ store' = [store EXCEPT ![IG_FILE] = Catalog(now, filtered)]
    /\ persisted_filters' = [persisted_filters EXCEPT ![IG_FILE] =
                               [min_followers |-> min_f, max_followers |-> max_f]]
    /\ UNCHANGED enriched
    /\ script' = "none"
    /\ pc' = "done"
    /\ ResetLocals
    /\ UNCHANGED <<now, workflow>>

NextIG ==
    \/ ig_main
    \/ ig_run_actor_submit
    \/ ig_run_actor_poll
    \/ ig_run_actor_fetch
    \/ ig_persist_open
    \/ ig_persist_write

\* =============================================================== TikTok
\* the authorMeta / author object of a video; a video without one is the
\* author with no field
RawVideos ==
    [name : Handles \cup {NoHandle}, uniqueId : Handles \cup {NoHandle},
     fans : FollowerValues]

\* the videos whose author's handle, if any, is in the field `name`
NameVideos == {v \in RawVideos : v.uniqueId = NoHandle}

\* extract_accounts, line 117: author.get("name") or author.get("uniqueId") or ""
tt_handle(author) == IF author.name # NoHandle THEN author.name ELSE author.uniqueId

\* extract_accounts, lines 134-150
tt_record(author, today) ==
    [id |-> "tt_" \o tt_handle(author), platform |-> "tiktok",
     handle |-> tt_handle(author), followers |-> author.fans,
     tier |-> tt_get_tier(author.fans), last_updated |-> today]

\* extract_accounts, lines 115-150: the first video of a handle wins
RECURSIVE extract_into(_, _, _)
extract_into(accounts, videos, today) ==
    IF videos = <<>> THEN accounts
    ELSE LET author == Head(videos)
         IN IF tt_handle(author) = NoHandle \/ tt_handle(author) \in Keys(accounts)
            THEN extract_into(accounts, Tail(videos), today)
            ELSE extract_into(Append(accounts, tt_record(author, today)),
                              Tail(videos), today)

extract_accounts(videos, today) == extract_into(<<>>, videos, today)

\* main, lines 184-188
tt_new_in_tag(accounts, exist, found) ==
    SelectSeq(accounts, LAMBDA a : a.handle \notin Keys(exist)
                                   /\ a.handle \notin Keys(found))

\* main, line 196
tt_merge(exist, found) == DictUpdate(exist, found)

\* main, lines 197-198
tt_filter_sort(m, lo, hi) ==
    SortDesc(SelectSeq(m, LAMBDA acc : in_range(acc, lo, hi)))

\* main, lines 195-198
tt_finish(L) ==
    LET m == tt_merge(existing, L.newly_found)
    IN [L EXCEPT !.pc = "persist", !.merged = m,
                 !.filtered = tt_filter_sort(m, min_f, max_f)]

\* run_actor returned videos that extract_accounts turned into `accounts`:
\* main, lines 183-191
tt_returned(accounts) ==
    LET L == [Frame EXCEPT !.newly_found =
                DictUpdate(newly_found,
                           tt_new_in_tag(accounts, existing, newly_found))]
    IN IF tag < hashtags
       THEN [L EXCEPT !.tag = tag + 1, !.pc = "submit"]
       ELSE tt_finish(L)

\* main, lines 155-181, up to the first remote call
tt_main ==
    /\ workflow = "tiktok" /\ script = "none" /\ now < MaxRuns
    /\ now' = now + 1
    /\ \E c \in Configs, n \in 0..MaxTags :
          IF n = 0
          THEN /\ script' = "none"           \* sys.exit(1), line 173
               /\ pc' = "exited"
               /\ UNCHANGED <<cfg_vars, existing, input, main_vars, actor>>
          ELSE IF store[TT_FILE] = Truncated
          THEN /\ script' = "none"          \* json.load raises, line 60
               /\ pc' = "aborted"
               /\ UNCHANGED <<cfg_vars, existing, input, main_vars, actor>>
          ELSE /\ script' = "tiktok"
               /\ min_f' = c.min_followers
               /\ max_f' = c.max_followers
               /\ hashtags' = n
               /\ existing' = load_existing(store[TT_FILE])
               /\ input' = store[TT_FILE]
               /\ SetFrame([Frame EXCEPT !.pc = "submit", !.tag = 1,
                                         !.actor = HASHTAG_ACTOR])
               /\ UNCHANGED min_videos
    /\ UNCHANGED <<store, workflow, persisted_filters, enriched, attempts, status,
                   fetches, skipped, jobs, submitted, yt_vars, merge_vars>>

\* run_actor, lines 66-80: the POST that starts the job
tt_run_actor_submit ==
    /\ script = "tiktok" /\ pc = "submit"
    /\ \/ /\ pc' = "poll"
          /\ attempts' = 0
          /\ fetches' = 0
          /\ skipped' = FALSE
          /\ jobs' = jobs + 1
          /\ UNCHANGED <<store, now, workflow, script, persisted_filters, enriched,
                         cfg_vars, existing, input, main_vars, actor, status,
                         submitted, yt_vars, merge_vars>>
       \/ Abort

\* run_actor, lines 90-97: what the loop does with the status it read;
\* `last` says that this was the last iteration of range(...)
tt_poll_outcome(s, last) ==
    IF s = "SUCCEEDED" THEN "break"
    ELSE IF s \in FailedStatuses THEN "return"
    ELSE IF last THEN "return"
    ELSE "continue"

\* run_actor, lines 83-97: one iteration of the polling loop
tt_run_actor_poll ==
    /\ script = "tiktok" /\ pc = "poll" /\ attempts < tt_poll_attempts
    /\ \/ \E s \in Statuses :
            /\ status' = s
            /\ IF tt_poll_outcome(s, attempts + 1 = tt_poll_attempts) = "break"
               THEN /\ pc' = "fetch"
                    /\ attempts' = 0
                    /\ UNCHANGED <<main_vars, actor>>
               ELSE IF tt_poll_outcome(s, attempts + 1 = tt_poll_attempts) = "return"
               THEN /\ attempts' = 0
                    /\ SetFrame(tt_returned(extract_accounts(<<>>, now)))
               ELSE /\ attempts' = attempts + 1
                    /\ UNCHANGED <<pc, main_vars, actor>>
            /\ UNCHANGED <<store, now, workflow, script, persisted_filters, enriched,
                           cfg_vars, existing, input, fetches, skipped, jobs, submitted,
                           yt_vars, merge_vars>>
       \/ Abort

\* what main can make of the fetched dataset, and whether extract_accounts
\* skipped a video of it for want of a handle
tt_answers ==
    {[accounts |-> extract_accounts(videos, now),
      skipped |-> \E k \in DOMAIN videos : tt_handle(videos[k]) = NoHandle] :
        videos \in SeqsUpTo(NameVideos, MaxItems)}

\* run_actor, lines 99-105: the dataset fetch, then main's processing
tt_run_actor_fetch ==
    /\ script = "tiktok" /\ pc = "fetch"
    /\ \/ /\ fetches' = fetches + 1
          /\ \E a \in tt_answers :
                /\ SetFrame(tt_returned(a.accounts))
                /\ skipped' = a.skipped
          /\ UNCHANGED <<store, now, workflow, script, persisted_filters, enriched,
                         cfg_vars, existing, input, attempts, status, jobs,
                         submitted, yt_vars, merge_vars>>
       \/ Abort

\* main, line 203: open(OUTPUT_PATH, "w") truncates the file
tt_persist_open ==
    /\ script = "tiktok" /\ pc = "persist"
    /\ store' = [store EXCEPT ![TT_FILE] = Truncated]
    /\ pc' = "write"
    /\ UNCHANGED <<now, workflow, script, persisted_filters, enriched, locals>>

\* main, lines 204-214: json.dump, and the script ends
tt_persist_write ==
    /\ script = "tiktok" /\ pc = "write"
    /\ store' = [store EXCEPT ![TT_FILE] = Catalog(now, filtered)]
    /\ persisted_filters' = [persisted_filters EXCEPT ![TT_FILE] =
                               [min_followers |-> min_f, max_followers |-> max_f]]
    /\ UNCHANGED enriched
    /\ script' = "none"
    /\ pc' = "done"
    /\ ResetLocals
    /\ UNCHANGED <<now, workflow>>

NextTT ==
    \/ tt_main
    \/ tt_run_actor_submit
    \/ tt_run_actor_poll
    \/ tt_run_actor_fetch
    \/ tt_persist_open
    \/ tt_persist_write

\* ------------------------------------------ the two job-provider pipelines
Init == InitFor({"instagram", "tiktok"})

Next == NextIG \/ NextTT

Spec == Init /\ [][Next]_vars

\* The process is killed (or the write fails) between open(OUTPUT_PATH, "w"),
\* which has emptied the file, and the end of json.dump.
persist_crash ==
    /\ script # "none" /\ pc = "write"
    /\ script' = "none"
    /\ pc' = "crashed"
    /\ ResetLocals
    /\ UNCHANGED <<store, now, workflow, persisted_filters, enriched>>

NextCrash == Next \/ persist_crash

SpecCrash == Init /\ [][NextCrash]_vars

\* ============================================================== YouTube
ChannelIds == {"UCa", "UCb"}
RawChannels == [id : ChannelIds, subscriberCount : FollowerValues,
                videoCount : VideoCounts]

\* yt_get("channels", ...), lines 89-96: the API answers with at most one
\* item for each id of the "id" parameter
ChannelAnswers(chunk) ==
    {a \in SeqsUpTo(RawChannels, MaxItems) :
        /\ \A k \in DOMAIN a : a[k].id \in Range(chunk)
        /\ \A j, k \in DOMAIN a : a[j].id = a[k].id => j = k}

\* fetch_channel_details, lines 97-141
yt_record(item, today) ==
    [id |-> "yt_" \o item.id, platform |-> "youtube", channel_id |-> item.id,
     handle |-> item.id, followers |-> item.subscriberCount,
     video_count |-> item.videoCount,
     tier |-> yt_get_tier(item.subscriberCount), last_updated |-> today]

yt_records(items, today) == [k \in DOMAIN items |-> yt_record(items[k], today)]

\* apply_filters, lines 146-154
apply_filters(channels, min_sub, min_vid) ==
    SelectSeq(channels, LAMBDA ch : ch.followers >= min_sub
                                    /\ ch.video_count >= min_vid)

\* main, lines 186-195
yt_finish(L, channels) ==
    [L EXCEPT !.pc = "persist", !.results = channels,
              !.filtered = SortDesc(apply_filters(channels, min_f, min_videos))]

\* main, line 186: fetch_channel_details(api_key, list(all_channel_ids))
yt_details_phase(L, ids) ==
    IF ids # {}
    THEN {[L EXCEPT !.pc = "channels", !.i = 0, !.results = <<>>]}
    ELSE {yt_finish(L, <<>>)}

\* main, lines 158-177, up to the first remote call
yt_main ==
    /\ workflow = "youtube" /\ script = "none" /\ now < MaxRuns
    /\ now' = now + 1
    /\ script' = "youtube"
    /\ input' = store[YT_FILE]
    /\ \E c \in Configs, n \in 0..MaxTags :
          /\ min_f' = c.min_followers
          /\ max_f' = c.max_followers
          /\ min_videos' = c.min_videos
          /\ hashtags' = n
          /\ IF n > 0
             THEN SetFrame([Frame EXCEPT !.pc = "search", !.tag = 1])
             ELSE SetFrame([Frame EXCEPT
                    !.pc = "persist",
                    !.filtered = SortDesc(apply_filters(<<>>, c.min_followers,
                                                        c.min_videos))])
    /\ UNCHANGED <<store, workflow, persisted_filters, enriched, existing, attempts,
                   status, fetches, skipped, jobs, submitted, yt_vars, merge_vars>>

\* search_channel_ids (lines 67-80) for one keyword, then main, lines 179-186
yt_search ==
    /\ script = "youtube" /\ pc = "search"
    /\ \/ \E ids \in {Range(a) : a \in SeqsUpTo(ChannelIds, MaxItems)} :
            LET all == all_channel_ids \cup ids
            IN /\ all_channel_ids' = all
               /\ IF tag < hashtags
                  THEN /\ SetFrame([Frame EXCEPT !.tag = tag + 1])
                       /\ UNCHANGED channel_list
                  ELSE /\ \E L \in yt_details_phase(Frame, all) : SetFrame(L)
                       /\ channel_list' \in Perms(all)
               /\ UNCHANGED <<store, now, workflow, script, persisted_filters, enriched,
                              cfg_vars, existing, input, attempts, status,
                              fetches, skipped, jobs, submitted, merge_vars>>
       \/ Abort

\* fetch_channel_details, lines 87-141: the channels call for one chunk
yt_channels ==
    /\ script = "youtube" /\ pc = "channels"
    /\ \/ /\ submitted' = submitted \o Slice(channel_list, i, i + 50)
          /\ \E items \in ChannelAnswers(Slice(channel_list, i, i + 50)) :
               LET res == results \o yt_records(items, now)
               IN IF i + 50 < Len(channel_list)
                  THEN SetFrame([Frame EXCEPT !.i = i + 50,
                                              !.results = res])
                  ELSE SetFrame(yt_finish(Frame, res))
          /\ UNCHANGED <<store, now, workflow, script, persisted_filters, enriched,
                         cfg_vars, existing, input, attempts, status, fetches, skipped,
                         jobs, yt_vars, merge_vars>>
       \/ Abort

\* main, line 199: open(OUTPUT_PATH, "w") truncates the file
yt_persist_open ==
    /\ script = "youtube" /\ pc = "persist"
    /\ store' = [store EXCEPT ![YT_FILE] = Truncated]
    /\ pc' = "write"
    /\ UNCHANGED <<now, workflow, script, persisted_filters, enriched, locals>>

\* main, lines 200-210: json.dump, and the script ends
yt_persist_write ==
    /\ script = "youtube" /\ pc = "write"
    /\ store' = [store EXCEPT ![YT_FILE] = Catalog(now, filtered)]
    /\ persisted_filters' = [persisted_filters EXCEPT ![YT_FILE] =
                               [min_followers |-> min_f, max_followers |-> max_f,
                                min_videos |-> min_videos]]
    /\ UNCHANGED enriched
    /\ script' = "none"
    /\ pc' = "done"
    /\ ResetLocals
    /\ UNCHANGED <<now, workflow>>

InitYT == InitFor({"youtube"})

NextYT ==
    \/ yt_main
    \/ yt_search
    \/ yt_channels
    \/ yt_persist_open
    \/ yt_persist_write

SpecYT == InitYT /\ [][NextYT]_vars

\* ================================================================ merge
\* SOURCES, merge.py lines 20-24
SOURCES == <<YT_FILE, IG_FILE, TT_FILE>>

\* merge.py reads whatever the three files hold: its inputs are drawn from
\* catalogs over a small set of ids, so that ids can collide within a file
\* and between files.  Id "x" comes with either follower count, id "y" with
\* the lower one: ties, and sources that the sort reorders, both occur.
MergeIds == {"x", "y"}
MergeFollowers == {10000, 1000000}
SourceRecords(f) ==
    {r \in [id : MergeIds, platform : {f}, followers : MergeFollowers] :
        r.id = "y" => r.followers = 10000}
SourceFiles(f) ==
    {NoFile} \cup {Catalog(0, accs) : accs \in SeqsUpTo(SourceRecords(f), MaxItems)}

\* main, lines 40-43
RECURSIVE merge_items_LastWins(_, _)
merge_items_LastWins(acc, items) ==
    IF items = <<>> THEN acc
    ELSE LET item == Head(items)
         IN IF item.id \notin acc.seen
            THEN merge_items_LastWins([seen |-> acc.seen \cup {item.id},
                                       list |-> Append(acc.list, item)],
                                      Tail(items))
            ELSE merge_items_LastWins(
                   [seen |-> acc.seen,
                    list |-> [k \in DOMAIN acc.list |->
                                IF acc.list[k].id = item.id THEN item
                                ELSE acc.list[k]]],
                   Tail(items))

RECURSIVE merge_items(_, _)
merge_items(acc, items) ==
    IF items = <<>> THEN acc
    ELSE LET item == Head(items)
         IN IF item.id \notin acc.seen
            THEN merge_items([seen |-> acc.seen \cup {item.id},
                              list |-> Append(acc.list, item)], Tail(items))
            ELSE merge_items(acc, Tail(items))

\* main, lines 28-30
merge_main ==
    /\ workflow = "merge" /\ script = "none" /\ now < MaxRuns
    /\ now' = now + 1
    /\ script' = "merge"
    /\ pc' = "read"
    /\ all_influencers' = <<>>
    /\ seen_ids' = {}
    /\ path' = 1
    /\ UNCHANGED <<store, workflow, persisted_filters, enriched, cfg_vars, existing,
                   input, main_vars, job_vars, yt_vars>>

\* main, lines 32-47: one iteration of the loop over SOURCES; after the last
\* one, the sort
merge_read ==
    /\ script = "merge" /\ pc = "read"
    /\ LET file == store[SOURCES[path]]
           acc == IF file = NoFile
                  THEN [seen |-> seen_ids, list |-> all_influencers]
                  ELSE merge_items([seen |-> seen_ids, list |-> all_influencers],
                                   file.influencers)
       IN /\ seen_ids' = acc.seen
          /\ IF path < Len(SOURCES)
             THEN /\ path' = path + 1
                  /\ all_influencers' = acc.list
                  /\ pc' = "read"
             ELSE /\ path' = path
                  /\ all_influencers' = SortDesc(acc.list)
                  /\ pc' = "persist"
    /\ UNCHANGED <<store, now, workflow, script, persisted_filters, enriched, cfg_vars,
                   existing, input, main_vars, job_vars, yt_vars>>

\* main, line 50: open(OUTPUT_PATH, "w") truncates the file
merge_persist_open ==
    /\ script = "merge" /\ pc = "persist"
    /\ store' = [store EXCEPT ![OUT_FILE] = Truncated]
    /\ pc' = "write"
    /\ UNCHANGED <<now, workflow, script, persisted_filters, enriched, locals>>

\* main, lines 51-61: json.dump, and the script ends
merge_persist_write ==
    /\ script = "merge" /\ pc = "write"
    /\ store' = [store EXCEPT ![OUT_FILE] = Catalog(now, all_influencers)]
    /\ script' = "none"
    /\ pc' = "done"
    /\ ResetLocals
    /\ UNCHANGED <<now, workflow, persisted_filters, enriched>>

InitMerge ==
    /\ \E yt \in SourceFiles(YT_FILE), ig \in SourceFiles(IG_FILE),
          tt \in SourceFiles(TT_FILE) :
            store = [f \in FileNames |->
                       IF f = YT_FILE THEN yt
                       ELSE IF f = IG_FILE THEN ig
                       ELSE IF f = TT_FILE THEN tt
                       ELSE NoFile]
    /\ persisted_filters = [f \in FileNames |-> NoConfig]
    /\ enriched = {}
    /\ now = 0
    /\ workflow = "merge"
    /\ script = "none"
    /\ pc = "done"
    /\ InitLocals

NextMerge ==
    \/ merge_main
    \/ merge_read
    \/ merge_persist_open
    \/ merge_persist_write

SpecMerge == InitMerge /\ [][NextMerge]_vars

\* =============================================== properties: job provider
\* run_actor returned [] to its caller in this step, and the caller went on:
\* nothing was fetched, no record and no username was added, and main
\* continues with the next discovery unit, with the enrichment batch, or,
\* after the last one, with the persist step.
ReturnedNothing ==
    /\ script' = script
    /\ fetches' = 0
    /\ all_usernames' = all_usernames /\ discovered' = discovered
    /\ results' = results /\ newly_found' = newly_found
    /\ IF actor = HASHTAG_ACTOR /\ tag < hashtags
       THEN pc' = "submit" /\ tag' = tag + 1 /\ actor' = HASHTAG_ACTOR
       ELSE IF script = "instagram" /\ actor = HASHTAG_ACTOR /\ all_usernames # {}
       THEN pc' = "submit" /\ actor' = PROFILE_ACTOR /\ i' = 0
       ELSE IF actor = PROFILE_ACTOR /\ i + 50 < Len(usernames_list)
       THEN pc' = "submit" /\ actor' = PROFILE_ACTOR /\ i' = i + 50
       ELSE pc' = "persist"

\* a run that reached its persist step started a job for every discovery
\* unit, and goes on to write its catalog
AllUnitsThenPersist ==
    /\ pc \in {"persist", "write"} /\ script \in {"instagram", "tiktok"}
         => /\ tag = hashtags
            /\ jobs = hashtags + Chunks(Cardinality(all_usernames))
    /\ pc = "write" /\ script = "instagram" => store[IG_FILE] = Truncated
    /\ pc = "write" /\ script = "tiktok" => store[TT_FILE] = Truncated

PersistStep ==
    /\ pc = "persist" => pc' = "write" /\ script' = script
    /\ pc = "write" /\ script = "instagram"
         => pc' = "done" /\ store'[IG_FILE] = Catalog(now, filtered)
    /\ pc = "write" /\ script = "tiktok"
         => pc' = "done" /\ store'[TT_FILE] = Catalog(now, filtered)

\* C1 (job failure recovery): when a status query of run_actor (Instagram or
\* TikTok) reads FAILED, ABORTED or TIMED-OUT, after any number of
\* non-terminal statuses, the call yields no record and its dataset is never
\* fetched; the run is not aborted: main goes on with the next discovery
\* unit, every unit of the run gets its job, and the run ends by writing the
\* catalog.
C1_JobFailureRecovery ==
    /\ [][pc = "poll" /\ status' \in {"FAILED", "ABORTED", "TIMED-OUT"}
            => ReturnedNothing]_vars
    /\ []AllUnitsThenPersist
    /\ [][PersistStep]_vars

\* a job of the run ended in a failure status, and the profile batch of the
\* same run has been submitted after it
C1_Witness ==
    /\ script = "instagram" /\ actor = PROFILE_ACTOR /\ pc = "poll"
    /\ attempts = 0 /\ status \in {"FAILED", "ABORTED", "TIMED-OUT"}
    /\ jobs = 3

\* C2 (poll timeout): run_actor makes at most timeout_sec // 5 status queries
\* for a job (60 in the TikTok fetcher); a non-terminal status before the last
\* query keeps it polling, and a non-terminal status at the last query has the
\* outcome of a failure status: no record, no dataset fetch, the run goes on.
C2_PollTimeout ==
    /\ [](pc = "poll" =>
            attempts < (IF script = "instagram" THEN timeout_sec \div 5 ELSE 60))
    /\ [][pc = "poll" /\ status' = "RUNNING" =>
            IF attempts + 1 < (IF script = "instagram" THEN timeout_sec \div 5
                               ELSE 60)
            THEN /\ pc' = "poll" /\ attempts' = attempts + 1
                 /\ UNCHANGED <<script, main_vars, actor, fetches, jobs>>
            ELSE ReturnedNothing]_vars

\* the first job of the run was still running at its last status query, and
\* the job of the next hashtag has been submitted
C2_Witness ==
    /\ script = "tiktok" /\ actor = HASHTAG_ACTOR /\ pc = "poll"
    /\ attempts = 0 /\ status = "RUNNING" /\ jobs = 2 /\ tag = 2

\* the units of the run that have been begun
UnitsBegun == tag + (IF actor = PROFILE_ACTOR THEN i \div 50 + 1 ELSE 0)

JobProtocolState ==
    /\ pc = "submit" => jobs = UnitsBegun - 1
    /\ pc \in {"poll", "fetch"} => jobs = UnitsBegun
    /\ pc = "poll" => fetches = 0
    /\ pc = "poll" /\ attempts > 0
         => status \notin {"SUCCEEDED", "FAILED", "ABORTED", "TIMED-OUT"}
    /\ pc = "fetch" => status = "SUCCEEDED" /\ fetches = 0
    /\ fetches \in {0, 1}
    /\ fetches = 1 => status = "SUCCEEDED"

JobProtocolStep ==
    /\ jobs' # jobs => \/ pc = "submit" /\ pc' = "poll" /\ jobs' = jobs + 1
                       \/ script' = "none"
    /\ pc' = "poll" => pc \in {"submit", "poll"}
    /\ status' # status => pc = "poll" \/ script' = "none"
    /\ pc = "poll" /\ status' \in {"SUCCEEDED", "FAILED", "ABORTED", "TIMED-OUT"}
         => pc' # "poll"
    /\ pc' = "fetch" => pc = "poll" /\ status' = "SUCCEEDED"
    /\ fetches' > fetches => pc = "fetch" /\ pc' \notin {"fetch", "poll"}

\* C3 (job protocol ordering): for each job, in this order: the submit
\* succeeds before any status query; status queries stop at the first terminal
\* status; the dataset is fetched at most once, and only after the status
\* SUCCEEDED was read.
C3_JobProtocolOrdering ==
    /\ []JobProtocolState
    /\ [][JobProtocolStep]_vars

\* the second job of a run succeeded and its dataset has been fetched once
C3_Witness ==
    /\ script = "tiktok" /\ pc = "persist" /\ jobs = 2
    /\ status = "SUCCEEDED" /\ fetches = 1

\* ============================================ properties: reconciliation
\* the handles of the catalog file the run loaded
InputHandles ==
    IF input = NoFile THEN {}
    ELSE {input.influencers[k].handle : k \in DOMAIN input.influencers}

\* the file the running script writes
OutputFile == IF script = "instagram" THEN IG_FILE ELSE TT_FILE

\* C4 (cost avoidance within an Instagram run): the usernames submitted to the
\* profile actor are usernames discovered in this run that are not handles of
\* the loaded catalog, none is submitted twice, and when the enrichment is
\* over they are exactly the discovered usernames minus the loaded handles.
C4_CostAvoidanceWithinRun ==
    script = "instagram" =>
        /\ Range(submitted) \subseteq discovered \ InputHandles
        /\ \A j, k \in DOMAIN submitted : submitted[j] = submitted[k] => j = k
        /\ pc \in {"persist", "write"}
             => Range(submitted) = discovered \ InputHandles

\* the loaded catalog holds a, the hashtags returned a and b, b alone was
\* submitted
C4_Witness ==
    /\ script = "instagram" /\ pc = "persist"
    /\ InputHandles = {"a"} /\ discovered = {"a", "b"} /\ submitted = <<"b">>

\* the keys of the records this run canonicalized
NewKeys ==
    IF script = "instagram" THEN {results[k].handle : k \in DOMAIN results}
    ELSE {newly_found[k].handle : k \in DOMAIN newly_found}

\* C5 (monotonic retention, Instagram and TikTok): a record of the loaded
\* catalog whose key is not among the records canonicalized in this run is in
\* the merged mapping unchanged; if its followers lie in the filter range it
\* is, unchanged, in the filtered list and in the catalog the run writes.
C5_MonotonicRetention ==
    /\ [](pc \in {"persist", "write"} /\ script \in {"instagram", "tiktok"}
          /\ input # NoFile =>
            \A k \in DOMAIN input.influencers :
                LET rec == input.influencers[k]
                IN rec.handle \notin NewKeys =>
                     /\ rec \in Range(merged)
                     /\ min_f <= rec.followers /\ rec.followers <= max_f
                          => rec \in Range(filtered))
    /\ [][pc = "write" /\ script \in {"instagram", "tiktok"} /\ input # NoFile =>
            \A k \in DOMAIN input.influencers :
                LET rec == input.influencers[k]
                IN /\ rec.handle \notin NewKeys
                   /\ min_f <= rec.followers /\ rec.followers <= max_f
                   => rec \in Range(store'[OutputFile].influencers)]_vars

\* the run enriched a new account, and the loaded catalog holds another one,
\* which is in the list about to be written
C5_Witness ==
    /\ script = "instagram" /\ pc = "write" /\ input # NoFile
    /\ results # <<>>
    /\ \E k \in DOMAIN input.influencers :
          /\ input.influencers[k].handle \notin NewKeys
          /\ input.influencers[k] \in Range(filtered)

\* this run found no key outside the loaded catalog
NoNewKey ==
    IF script = "instagram" THEN discovered \subseteq InputHandles
    ELSE newly_found = <<>>

\* C7 (idempotence, Instagram and TikTok): a run that loads a catalog written
\* by an earlier run, has the filters of that run and finds no key outside the
\* catalog (its jobs may all fail or time out) writes a catalog with the same
\* count and the same influencers list, in the same order.
C7_Idempotence ==
    [][/\ pc = "write" /\ script \in {"instagram", "tiktok"} /\ input # NoFile
       /\ persisted_filters[OutputFile]
            = [min_followers |-> min_f, max_followers |-> max_f]
       /\ NoNewKey
       => /\ store'[OutputFile].influencers = input.influencers
          /\ store'[OutputFile].count = input.count]_vars

\* the loaded catalog holds two records with the same follower count, the
\* filters are those it was written with, and the last job of the run failed
C7_Witness ==
    /\ script = "instagram" /\ pc = "write" /\ input # NoFile
    /\ input.count = 2
    /\ input.influencers[1].followers = input.influencers[2].followers
    /\ persisted_filters[IG_FILE]
         = [min_followers |-> min_f, max_followers |-> max_f]
    /\ discovered \subseteq InputHandles
    /\ jobs = 2 /\ status = "FAILED"

\* C8 (filter boundary inclusivity, Instagram and TikTok): a merged record is
\* in the filtered list, and in the catalog the run writes, if and only if
\* min_followers <= followers <= max_followers: followers equal to either
\* limit are kept, followers one below the minimum or one above the maximum
\* are dropped.
C8_FilterBoundaryInclusivity ==
    /\ [](pc \in {"persist", "write"} /\ script \in {"instagram", "tiktok"} =>
            /\ Range(filtered) \subseteq Range(merged)
            /\ \A k \in DOMAIN merged :
                 merged[k] \in Range(filtered)
                   <=> (min_f <= merged[k].followers
                        /\ merged[k].followers <= max_f))
    /\ [][pc = "write" /\ script \in {"instagram", "tiktok"} =>
            /\ Range(store'[OutputFile].influencers) \subseteq Range(merged)
            /\ \A k \in DOMAIN merged :
                 merged[k] \in Range(store'[OutputFile].influencers)
                   <=> (min_f <= merged[k].followers
                        /\ merged[k].followers <= max_f)]_vars

\* the merged mapping holds a record with followers equal to the maximum,
\* which is kept, and one with followers one below the minimum, which is not
C8_Witness ==
    /\ script = "tiktok" /\ pc = "write"
    /\ \E j, k \in DOMAIN merged :
          /\ merged[j].followers = max_f /\ merged[j] \in Range(filtered)
          /\ merged[k].followers = min_f - 1 /\ merged[k] \notin Range(filtered)

\* ====================================================== properties: YouTube
\* C6 (never deleted, YouTube): a record of the YouTube catalog as it was
\* before the run, whose channel is not returned by the run's keyword
\* searches and which passes the configured filters, is in the catalog the
\* run writes.
C6_YouTubeNeverDeleted ==
    [][pc = "write" /\ script = "youtube" /\ input # NoFile =>
         \A k \in DOMAIN input.influencers :
            LET rec == input.influencers[k]
            IN /\ rec.channel_id \notin all_channel_ids
               /\ min_f <= rec.followers /\ rec.followers <= max_f
               /\ rec.video_count >= min_videos
               => rec \in Range(store'[YT_FILE].influencers)]_vars

\* C9 (filter range, YouTube): every record of the persisted YouTube catalog
\* has followers within the inclusive range [min_followers, max_followers]
\* the run was configured with, and video_count at least min_videos.
C9_YouTubeFilterRange ==
    store[YT_FILE] \notin {NoFile, Truncated} =>
        \A k \in DOMAIN store[YT_FILE].influencers :
            LET rec == store[YT_FILE].influencers[k]
                f == persisted_filters[YT_FILE]
            IN /\ f.min_followers <= rec.followers
               /\ rec.followers <= f.max_followers
               /\ rec.video_count >= f.min_videos

\* ======================================================== properties: merge
\* the ids of source file f
IdsOf(f) ==
    IF store[f] = NoFile THEN {}
    ELSE {store[f].influencers[k].id : k \in DOMAIN store[f].influencers}

\* the first record with id x of the first source, in the order youtube,
\* instagram, tiktok, that holds one
FirstRecord(x) ==
    LET order == <<"youtube.json", "instagram.json", "tiktok.json">>
        p == CHOOSE p \in 1..3 :
                /\ x \in IdsOf(order[p])
                /\ \A q \in 1..(p - 1) : x \notin IdsOf(order[q])
        recs == store[order[p]].influencers
        k == CHOOSE k \in DOMAIN recs :
                /\ recs[k].id = x
                /\ \A j \in 1..(k - 1) : recs[j].id # x
    IN recs[k]

Unified(list) ==
    LET ids == IdsOf("youtube.json") \cup IdsOf("instagram.json")
                 \cup IdsOf("tiktok.json")
    IN /\ \A x \in ids :
            /\ Cardinality({k \in DOMAIN list : list[k].id = x}) = 1
            /\ FirstRecord(x) \in Range(list)
       /\ \A k \in DOMAIN list : list[k].id \in ids

\* C10 (unifier conflict resolution): for every id in one or more of the
\* sources youtube, instagram, tiktok (a missing file is skipped), the unified
\* list, and the catalog written from it, holds exactly one record with that
\* id: the first occurrence in the first source, in that order, that has it.
C10_UnifierConflictResolution ==
    /\ script = "merge" /\ pc \in {"persist", "write"}
         => Unified(all_influencers)
    /\ store[OUT_FILE] \notin {NoFile, Truncated}
         => Unified(store[OUT_FILE].influencers)

\* youtube.json is missing, instagram.json holds id x twice with different
\* followers, tiktok.json holds id x too, and the unified catalog is written
C10_Witness ==
    /\ store[OUT_FILE] \notin {NoFile, Truncated}
    /\ store[YT_FILE] = NoFile
    /\ store[IG_FILE] # NoFile /\ store[IG_FILE].count = 2
    /\ store[IG_FILE].influencers[1].id = "x"
    /\ store[IG_FILE].influencers[2].id = "x"
    /\ store[IG_FILE].influencers[1].followers
         < store[IG_FILE].influencers[2].followers
    /\ "x" \in IdsOf(TT_FILE)

\* ======================================================= the whole pipeline
\* The catalogs a first run of each fetcher can write: what main makes of the
\* records of one enrichment answer, under one of the configurations.
ProducedIG ==
    {Catalog(1, ig_filter_sort(ig_merge(<<>>, ig_canonicalize(profiles, 1)),
                               c.min_followers, c.max_followers)) :
        profiles \in SeqsUpTo(UsernameProfiles, MaxItems), c \in Configs}

ProducedTT ==
    {Catalog(1, tt_filter_sort(tt_merge(<<>>, extract_accounts(videos, 1)),
                               c.min_followers, c.max_followers)) :
        videos \in SeqsUpTo(NameVideos, MaxItems), c \in Configs}

ProducedYT ==
    {Catalog(1, SortDesc(apply_filters(yt_records(items, 1),
                                       c.min_followers, c.min_videos))) :
        items \in UNION {ChannelAnswers(order) : order \in Perms(ChannelIds)},
        c \in Configs}

\* merge.py run on files that the three fetchers wrote (or did not write yet)
InitProduced ==
    /\ \E yt \in ProducedYT \cup {NoFile}, ig \in ProducedIG \cup {NoFile},
          tt \in ProducedTT \cup {NoFile} :
            store = [f \in FileNames |->
                       IF f = YT_FILE THEN yt
                       ELSE IF f = IG_FILE THEN ig
                       ELSE IF f = TT_FILE THEN tt
                       ELSE NoFile]
    /\ persisted_filters = [f \in FileNames |-> NoConfig]
    /\ enriched = {}
    /\ now = 0
    /\ workflow = "merge"
    /\ script = "none"
    /\ pc = "done"
    /\ InitLocals

SpecUnify == InitProduced /\ [][NextMerge]_vars

\* the four scripts, each on its own schedule
InitAll == Init \/ InitYT \/ InitProduced

NextAll == Next \/ NextYT \/ NextMerge

SpecAll == InitAll /\ [][NextAll]_vars

\* ================================================= properties: the catalogs
\* the file a script writes
OutputOf(s) ==
    IF s = "instagram" THEN IG_FILE
    ELSE IF s = "tiktok" THEN TT_FILE
    ELSE IF s = "youtube" THEN YT_FILE
    ELSE OUT_FILE

SortedDesc(list) ==
    \A j, k \in DOMAIN list : j < k => list[j].followers >= list[k].followers

\* the first index of x in seq
Pos(seq, x) ==
    CHOOSE k \in DOMAIN seq : seq[k] = x /\ \A j \in 1..(k - 1) : seq[j] # x

\* records of list with equal followers are in the order they have in src
KeepsOrder(list, src) ==
    \A j, k \in DOMAIN list :
        j < k /\ list[j].followers = list[k].followers
            => Pos(src, list[j]) < Pos(src, list[k])

\* the place at which merge.py appends the record with id x: the sources in
\* the order youtube, instagram, tiktok, each in file order
AppendRank(x) ==
    LET order == <<"youtube.json", "instagram.json", "tiktok.json">>
        p == CHOOSE p \in 1..3 :
                /\ x \in IdsOf(order[p])
                /\ \A q \in 1..(p - 1) : x \notin IdsOf(order[q])
        recs == store[order[p]].influencers
        k == CHOOSE k \in DOMAIN recs :
                /\ recs[k].id = x
                /\ \A j \in 1..(k - 1) : recs[j].id # x
    IN p * (Len(recs) + 1000) + k

KeepsAppendOrder(list) ==
    \A j, k \in DOMAIN list :
        j < k /\ list[j].followers = list[k].followers
            => AppendRank(list[j].id) < AppendRank(list[k].id)

RankingState ==
    /\ \A f \in FileNames :
          store[f] \notin {NoFile, Truncated} => SortedDesc(store[f].influencers)
    /\ pc \in {"persist", "write"} /\ script \in {"instagram", "tiktok"}
         => SortedDesc(filtered) /\ KeepsOrder(filtered, merged)
    /\ pc \in {"persist", "write"} /\ script = "youtube"
         => SortedDesc(filtered) /\ KeepsOrder(filtered, results)
    /\ pc \in {"persist", "write"} /\ script = "merge"
         => SortedDesc(all_influencers) /\ KeepsAppendOrder(all_influencers)
    /\ workflow = "merge" /\ store[OUT_FILE] \notin {NoFile, Truncated}
         => KeepsAppendOrder(store[OUT_FILE].influencers)

\* C11 (ranking): the influencers list each script persists (Instagram,
\* TikTok, YouTube, the unifier) is in non-increasing order of followers, and
\* records with equal followers keep the order they had before the sort: the
\* order of the merged mapping (of the fetched channels for YouTube), the
\* append order of the sources for the unifier.
C11_Ranking ==
    /\ []RankingState
    /\ [][pc = "write" /\ pc' = "done" =>
            store'[OutputOf(script)].influencers
              = (IF script = "merge" THEN all_influencers ELSE filtered)]_vars

\* the unified catalog holds a tiktok record with more followers before a
\* youtube and an instagram record that tie
C11_Witness ==
    /\ workflow = "merge" /\ store[OUT_FILE] \notin {NoFile, Truncated}
    /\ store[OUT_FILE].count = 3
    /\ store[OUT_FILE].influencers[1].platform = "tiktok"
    /\ store[OUT_FILE].influencers[2].platform = "youtube"
    /\ store[OUT_FILE].influencers[3].platform = "instagram"
    /\ store[OUT_FILE].influencers[2].followers
         = store[OUT_FILE].influencers[3].followers

\* the tier of the classifier thresholds
TierFor(f) ==
    IF f >= 1000000 THEN "mega"
    ELSE IF f >= 100000 THEN "macro"
    ELSE IF f >= 50000 THEN "mid"
    ELSE IF f >= 10000 THEN "micro"
    ELSE "nano"

CatalogOK(c) ==
    /\ c.count = Len(c.influencers)
    /\ \A j, k \in DOMAIN c.influencers :
          c.influencers[j].id = c.influencers[k].id => j = k
    /\ \A k \in DOMAIN c.influencers :
          c.influencers[k].tier = TierFor(c.influencers[k].followers)

FirstWithHandle(seq, h) ==
    seq[CHOOSE k \in DOMAIN seq :
            seq[k].handle = h /\ \A j \in 1..(k - 1) : seq[j].handle # h]

\* the first video of a batch whose author has the name h
FirstAuthor(videos, h) ==
    videos[CHOOSE k \in DOMAIN videos :
            videos[k].name = h /\ \A j \in 1..(k - 1) : videos[j].name # h]

\* C13 (canonicalization dedup): of the raw records of a batch that resolve
\* to one handle, the canonicalized result holds exactly one record, made
\* from the first of them: for TikTok the result of extract_accounts, for
\* Instagram the records of fetch_profiles as main keys them by handle.
C13_CanonicalizationDedup ==
    /\ \A videos \in SeqsUpTo(NameVideos, MaxItems) :
          LET accounts == extract_accounts(videos, now)
          IN \A h \in {videos[k].name : k \in DOMAIN videos} \ {""} :
                /\ Cardinality({k \in DOMAIN accounts : accounts[k].handle = h}) = 1
                /\ \E k \in DOMAIN accounts :
                      /\ accounts[k].handle = h
                      /\ accounts[k].followers = FirstAuthor(videos, h).fans
    /\ script = "instagram" /\ pc \in {"persist", "write"} =>
          \A h \in {results[k].handle : k \in DOMAIN results} :
             /\ Cardinality({k \in DOMAIN merged : merged[k].handle = h}) = 1
             /\ FirstWithHandle(results, h) \in Range(merged)

\* follower counts at, next to and between the thresholds
TierProbes ==
    {0, 1, 5000, 9999, 10000, 10001, 49999, 50000, 50001, 99999, 100000,
     100001, 500000, 999999, 1000000, 1000001, 2000000000}

TierRank(t) ==
    IF t = "nano" THEN 0
    ELSE IF t = "micro" THEN 1
    ELSE IF t = "mid" THEN 2
    ELSE IF t = "macro" THEN 3
    ELSE IF t = "mega" THEN 4
    ELSE -1

\* the records of this run are classified by the thresholds
TierOfNewRecords ==
    /\ \A k \in DOMAIN results : results[k].tier = TierFor(results[k].followers)
    /\ \A k \in DOMAIN newly_found :
          newly_found[k].tier = TierFor(newly_found[k].followers)

\* C14 (tier classifier): get_tier maps every non-negative follower count to
\* one of nano, micro, mid, macro, mega by the inclusive lower bounds 10000,
\* 50000, 100000, 1000000; it never decreases when the count increases; and
\* the copies of get_tier in the Instagram, TikTok and YouTube fetchers agree.
C14_TierClassifier ==
    /\ get_tier(9999) = "nano" /\ get_tier(10000) = "micro"
    /\ get_tier(49999) = "micro" /\ get_tier(50000) = "mid"
    /\ get_tier(99999) = "mid" /\ get_tier(100000) = "macro"
    /\ get_tier(999999) = "macro" /\ get_tier(1000000) = "mega"
    /\ \A f \in TierProbes :
          /\ get_tier(f) = TierFor(f)
          /\ tt_get_tier(f) = get_tier(f)
          /\ yt_get_tier(f) = get_tier(f)
    /\ \A f, g \in TierProbes :
          f <= g => TierRank(get_tier(f)) <= TierRank(get_tier(g))
    /\ TierOfNewRecords

\* a YouTube run fetched a channel with exactly 1000000 subscribers, a mega,
\* and one with 9999, a nano
C14_Witness ==
    /\ script = "youtube" /\ pc = "persist" /\ Len(results) = 2
    /\ results[1].followers = 1000000 /\ results[1].tier = "mega"
    /\ results[2].followers = 9999 /\ results[2].tier = "nano"

\* C15 (atomic persistence): when a script crashes during its persist step,
\* a catalog file that held a valid catalog before the run holds either that
\* catalog or the complete new one, never an empty or half-written file.
C15_AtomicPersistence ==
    [][pc' = "crashed" /\ input # NoFile =>
         store'[OutputOf(script)] \in {input, Catalog(now, filtered)}]_vars

\* C16 (fatal transport errors): when a remote call of a fetcher (the submit
\* or the dataset fetch of a job, a YouTube search or channels call) raises,
\* the run ends there: it never reaches its persist step, the process makes
\* no further remote call, and the catalog file is what it was before the
\* run.
C16_FatalTransportErrors ==
    /\ [](script \in {"instagram", "tiktok", "youtube"} /\ pc # "write"
            => store[OutputOf(script)] = input)
    /\ [][pc' = "aborted" =>
            /\ pc \in {"submit", "poll", "fetch", "search", "channels"}
            /\ script # "none" /\ script' = "none"
            /\ store' = store
            /\ store'[OutputOf(script)] = input]_vars
    /\ [][pc = "aborted" => script = "none" /\ now' = now + 1]_vars

\* the second YouTube run was aborted by a failed call, and the catalog the
\* first run wrote is still in place
C16_Witness ==
    /\ workflow = "youtube" /\ pc = "aborted" /\ now = 2
    /\ store[YT_FILE] \notin {NoFile, Truncated}
    /\ store[YT_FILE].generated_at = 1 /\ store[YT_FILE].count = 2

\* ========================================== properties: the unified catalog
CountOf(f) == IF store[f] = NoFile THEN 0 ELSE store[f].count

RecordsOf(f) == IF store[f] = NoFile THEN {} ELSE Range(store[f].influencers)

C18_YouTubeCostAvoidance ==
    script = "youtube" /\ input # NoFile =>
        \A k \in DOMAIN submitted :
            submitted[k] \notin {input.influencers[j].channel_id :
                                    j \in DOMAIN input.influencers}

\* C19 (cost avoidance across runs, Instagram): with the filters the catalog
\* was last written with, a username whose profile the profile actor
\* returned in an earlier run is not submitted to it again, whether or not
\* its followers passed the filter then.  When the first batch of a run has
\* been submitted and not fetched yet, enriched holds the usernames of the
\* earlier runs.
C19_CostAvoidanceAcrossRuns ==
    /\ script = "instagram" /\ actor = PROFILE_ACTOR /\ pc = "poll" /\ i = 0
    /\ persisted_filters[IG_FILE]
         = [min_followers |-> min_f, max_followers |-> max_f]
    => Range(submitted) \cap enriched = {}

\* =========================================== fetch_profiles on a long list
\* the numbers of new usernames the hashtags of a run may have found: none,
\* one, a full batch, one more, two full batches
BatchSizes == {0, 1, chunk_size, chunk_size + 1, 2 * chunk_size}

Usernames(n) == IF n = 0 THEN <<>> ELSE [k \in 1..n |-> "u" \o ToString(k)]

\* main, line 198: an Instagram run whose one hashtag job found n usernames,
\* none of them in the (missing) catalog, right before fetch_profiles
InitBatch ==
    /\ store = [f \in FileNames |-> NoFile]
    /\ persisted_filters = [f \in FileNames |-> NoConfig]
    /\ enriched = {}
    /\ now = 1
    /\ workflow = "batch"
    /\ script = "instagram"
    /\ min_videos = 0 /\ hashtags = 1 /\ tag = 1
    /\ existing = <<>> /\ input = NoFile
    /\ newly_found = <<>> /\ merged = <<>> /\ filtered = <<>>
    /\ i = 0 /\ results = <<>>
    /\ attempts = 0 /\ status = "SUCCEEDED" /\ fetches = 1 /\ skipped = FALSE
    /\ jobs = 1
    /\ submitted = <<>>
    /\ all_channel_ids = {} /\ channel_list = <<>>
    /\ all_influencers = <<>> /\ seen_ids = {} /\ path = 0
    /\ \E c \in Configs, n \in BatchSizes :
          /\ min_f = c.min_followers /\ max_f = c.max_followers
          /\ all_usernames = Range(Usernames(n))
          /\ discovered = Range(Usernames(n))
          /\ usernames_list = Usernames(n)
          /\ IF n > 0 THEN pc = "submit" /\ actor = PROFILE_ACTOR
                      ELSE pc = "persist" /\ actor = HASHTAG_ACTOR

NextBatch ==
    \/ ig_run_actor_submit
    \/ ig_run_actor_poll
    \/ ig_run_actor_fetch
    \/ ig_persist_open
    \/ ig_persist_write

SpecBatch == InitBatch /\ [][NextBatch]_vars


\* ------------------------------------------------------------------ C20
\* the usernames of the list up to position n
ListUpTo(n) ==
    SubSeq(usernames_list, 1, IF n < Len(usernames_list) THEN n
                              ELSE Len(usernames_list))

\* the batches sent so far are the consecutive 50-username pieces of the
\* list, one job each
BatchesSoFar ==
    actor = PROFILE_ACTOR /\ pc \in {"submit", "poll", "fetch"}
    => /\ i % 50 = 0
       /\ submitted = ListUpTo(IF pc = "submit" THEN i ELSE i + 50)
       /\ jobs = 1 + (IF pc = "submit" THEN i \div 50 ELSE i \div 50 + 1)

\* at the end every username was sent exactly once
AllBatchesSent ==
    pc \in {"persist", "write"}
    => /\ submitted = usernames_list
       /\ jobs = 1 + (Len(usernames_list) + 49) \div 50

\* one submission sends the next piece of at most 50 usernames as one job
BatchSubmitStep ==
    pc = "submit" /\ pc' = "poll"
    => /\ \E batch \in {SubSeq(usernames_list, i + 1, m) :
                           m \in {k \in i + 1 .. i + 50 : k <= Len(usernames_list)}} :
             /\ submitted' = submitted \o batch
             /\ Len(submitted') = Len(usernames_list) \/ Len(batch) = 50
       /\ jobs' = jobs + 1

\* a batch whose job fails or never finishes adds no record, keeps the
\* records of the other batches and is followed by the next batch
BatchFailureStep ==
    pc = "poll" /\ pc' \notin {"poll", "fetch", "aborted"}
    => /\ results' = results
       /\ IF i + 50 < Len(usernames_list)
            THEN pc' = "submit" /\ i' = i + 50
            ELSE pc' = "persist"

\* a batch that succeeds only appends records
BatchSuccessStep ==
    pc = "fetch" /\ pc' \in {"submit", "persist"}
    => /\ Len(results') >= Len(results)
       /\ SubSeq(results', 1, Len(results)) = results

\* C20: the profile actor gets the usernames in consecutive batches of at
\* most 50, each username in exactly one batch and each batch as one job; a
\* failed batch contributes no record, keeps those of the other batches and
\* does not stop the remaining batches from being submitted.
C20_EnrichmentBatching ==
    /\ [](BatchesSoFar /\ AllBatchesSent)
    /\ [][BatchSubmitStep /\ BatchFailureStep /\ BatchSuccessStep]_vars

\* two batches were sent, the first one failed or succeeded, the second one
\* failed, and a record of the first is in the results
C20_Witness ==
    /\ workflow = "batch" /\ pc = "persist"
    /\ Len(usernames_list) = 51 /\ Len(submitted) = 51 /\ jobs = 3
    /\ status \in {"FAILED", "ABORTED", "TIMED-OUT"}
    /\ results # <<>>


\* ------------------------------------------------------------------ C21
\* the records newly canonicalized in the run that is about to persist
NewRecords == IF script = "instagram" THEN results ELSE newly_found

WithHandle(accs, h) == {accs[k] : k \in {j \in DOMAIN accs : accs[j].handle = h}}

\* C21: in an Instagram or TikTok run the merged mapping has the keys of the
\* existing mapping and of the newly canonicalized records; a key that was
\* newly canonicalized maps to a newly canonicalized record, whole, whether
\* or not the existing mapping had the key, and every other key maps to its
\* existing record unchanged.
C21_MergeOverride ==
    script \in {"instagram", "tiktok"} /\ pc \in {"persist", "write"}
    => /\ Keys(merged) = Keys(existing) \cup Keys(NewRecords)
       /\ \A j, k \in DOMAIN merged : merged[j].handle = merged[k].handle => j = k
       /\ \A k \in DOMAIN merged :
             IF merged[k].handle \in Keys(NewRecords)
             THEN merged[k] \in WithHandle(NewRecords, merged[k].handle)
             ELSE merged[k] \in WithHandle(existing, merged[k].handle)

\* an Instagram run canonicalized a record for a key of the existing mapping
\* that differs from the existing record, and one for a key it did not have
C21_Witness ==
    /\ script = "instagram" /\ pc = "persist"
    /\ \E o \in Range(existing), n \in Range(results) :
          /\ o.handle = n.handle
          /\ o.followers # n.followers /\ o.last_updated # n.last_updated
          /\ n \in Range(merged) /\ o \notin Range(merged)
    /\ Keys(results) \ Keys(existing) # {}


\* ------------------------------------------------------------------ C22
\* Of the profiles of any dataset, fetch_profiles makes a record of exactly
\* those with a non-empty username or handle field, in their order, under
\* the first of the two that is not empty.
SkipInProfiles ==
    \A profiles \in SeqsUpTo(RawProfiles, MaxItems) :
       LET out  == ig_canonicalize(profiles, 1)
           kept == SelectSeq(profiles,
                             LAMBDA p : p.username # "" \/ p.handle # "")
       IN /\ Len(out) = Len(kept)
          /\ \A k \in DOMAIN out :
                /\ out[k].handle # "" /\ out[k].id # "ig_"
                /\ out[k].handle = (IF kept[k].username # ""
                                    THEN kept[k].username ELSE kept[k].handle)
                /\ out[k].id = "ig_" \o out[k].handle
                /\ out[k].followers = kept[k].followersCount

\* Of the videos of any dataset, extract_accounts makes accounts of exactly
\* the handles of the authors with a non-empty name or uniqueId field.
SkipInVideos ==
    \A videos \in SeqsUpTo(RawVideos, MaxItems) :
       LET out == extract_accounts(videos, 1)
       IN /\ {out[k].handle : k \in DOMAIN out}
               = {IF videos[k].name # "" THEN videos[k].name
                  ELSE videos[k].uniqueId : k \in DOMAIN videos} \ {""}
          /\ \A k \in DOMAIN out :
                /\ out[k].handle # "" /\ out[k].id # "tt_"
                /\ out[k].id = "tt_" \o out[k].handle

\* Of the posts of any dataset, collect_usernames keeps exactly the
\* non-empty owner usernames.
SkipInPosts ==
    \A posts \in SeqsUpTo(RawPosts, MaxItems) :
       collect_usernames(posts)
         = {posts[k].ownerUsername : k \in DOMAIN posts} \ {""}

\* no record without identity in the sets of a run and in its catalog
NoEmptyIdentity ==
    /\ "" \notin all_usernames /\ "" \notin Range(usernames_list)
    /\ \A r \in Range(results) \cup Range(newly_found) \cup Range(merged)
                \cup Range(filtered) :
          r.handle # "" /\ r.id \notin {"ig_", "tt_"}
    /\ \A f \in {IG_FILE, TT_FILE} :
          store[f] \notin {NoFile, Truncated} =>
             \A r \in Range(store[f].influencers) :
                r.handle # "" /\ r.id \notin {"ig_", "tt_"}

\* C22: a raw record without a resolvable handle yields no canonical
\* record, so no run of the Instagram or TikTok fetcher adds a record with
\* an empty handle, or with the id "ig_" or "tt_", to its newly found set
\* or to its catalog; the other records of the dataset are canonicalized.
C22_SkipOnMissingIdentity ==
    /\ SkipInProfiles /\ SkipInVideos /\ SkipInPosts
    /\ NoEmptyIdentity

\* the profile actor's dataset held a profile without a handle and one with
\* a handle, and the record of the latter is in the results of the run
C22_Witness ==
    /\ script = "instagram" /\ actor = PROFILE_ACTOR /\ pc = "persist"
    /\ skipped /\ Len(results) = 1 /\ Len(merged) = 1

=============================================================================
